---- MODULE Spec2Model ----
(***************************************************************************)
(* Model of the dashboard's stream client (WebsocketService, built on      *)
(* rxjs webSocket + retry + shareReplay) and of the root view              *)
(* (AppComponent) that consumes its snapshot and connection-status         *)
(* streams; and of the presentational components a face card is made of:   *)
(* FaceCardComponent (panel placement), EmotionWheelComponent (the gauge)  *)
(* and BioSignalWaveformComponent (BPM readout and waveform).              *)
(*                                                                         *)
(* Time is in milliseconds.  Server timestamps are whole seconds.  A JS    *)
(* number is a record [kind, num, den]: kind "num" is the rational         *)
(* num/den, and NaN and Infinity are their own kinds.  An optional JSON    *)
(* field is a record [def, val].                                           *)
(***************************************************************************)
EXTENDS Integers, Sequences, FiniteSets, TLC

\* ---------------------------------------------------------------- bounds
MaxSockets == 3      \* WebSocket objects created in one run
MaxTicks == 1        \* advances of the clock in one run
MaxSends == 1        \* startSession calls in one run
MaxSamples == 2      \* samples in a waveform

\* ------------------------------------------------------ program constants
RetryDelay == 2000

Sockets == 1..MaxSockets

Variants == {"part_000", "app.component.ts"}

\* ------------------------------------------------------------ JS values
Present(v) == [def |-> TRUE, val |-> v]
Absent(v) == [def |-> FALSE, val |-> v]

Num(n) == [kind |-> "num", num |-> n, den |-> 1]
NaN == [kind |-> "NaN", num |-> 0, den |-> 1]
Infinity == [kind |-> "Infinity", num |-> 0, den |-> 1]

\* a / b for integers a > 0, b >= 0
Div(a, b) == IF b = 0 THEN Infinity ELSE [kind |-> "num", num |-> a, den |-> b]

\* field * k, where an absent field reads as undefined and undefined * k is NaN
Times(field, k) == IF field.def THEN Num(field.val * k) ELSE NaN

\* a - b for an integer a and a JS number b
Minus(a, b) == IF b.kind = "NaN" THEN NaN ELSE Num(a - b.num)

\* Math.max(a, b) for an integer a and a JS number b: NaN if b is NaN
MathMax(a, b) ==
  IF b.kind = "NaN" THEN NaN ELSE IF b.num > a THEN b ELSE Num(a)

\* ------------------------------------------------------ inbound messages
Face(k, emotion, p) == [key |-> k, dominant_emotion |-> emotion, prob |-> p]

FaceMaps ==
  { {Face("e1", "Happy", 85)},
    {Face("e1", "Sad", 50), Face("e2", "Happy", 85)} }

SystemTimes == {1950, 2050}

Snapshot(t, f, fr) == [timestamp |-> t, faces |-> f, frame |-> fr]

\* the snapshot object of the protocol: frame_id, timestamp, faces, frame?
Snapshots ==
  { Snapshot(Present(2), Present({Face("e1", "Happy", 85)}), Present("jpegA")),
    Snapshot(Present(2), Present({Face("e1", "Sad", 50), Face("e2", "Happy", 85)}), Absent("")),
    Snapshot(Present(2), Absent({}), Present("jpegB")) }

NoSnapshot == [timestamp |-> Absent(0), faces |-> Absent({}), frame |-> Absent("")]

\* what JSON.parse returns: null, or an object with some of these fields
JsonNull ==
  [null |-> TRUE, type |-> Absent(""), payload |-> Absent(NoSnapshot),
   timestamp |-> Absent(0), faces |-> Absent({}), frame |-> Absent("")]

\* {type: t, payload: P}
Envelope(t, P) ==
  [null |-> FALSE, type |-> Present(t), payload |-> Present(P),
   timestamp |-> Absent(0), faces |-> Absent({}), frame |-> Absent("")]

\* {type: t} with no payload
Bare(t) ==
  [null |-> FALSE, type |-> Present(t), payload |-> Absent(NoSnapshot),
   timestamp |-> Absent(0), faces |-> Absent({}), frame |-> Absent("")]

\* the snapshot's fields at the top level, as the InferenceData interface has them
Flat(P) ==
  [null |-> FALSE, type |-> Absent(""), payload |-> Absent(NoSnapshot),
   timestamp |-> P.timestamp, faces |-> P.faces, frame |-> P.frame]

JsonValues ==
  {JsonNull, Bare("pong")}
    \cup {Envelope("inference_results", P) : P \in Snapshots}
    \cup {Flat(P) : P \in Snapshots}

\* a MessageEvent: its text either parses to a value or does not parse
MessageEvents ==
  {[wellFormed |-> TRUE, value |-> v] : v \in JsonValues}
    \cup {[wellFormed |-> FALSE, value |-> JsonNull]}

\* the default deserializer, JSON.parse(e.data); it throws on malformed text
deserializer(e) == e.value

\* ------------------------------------------------------------------ window
\* window.innerWidth and window.innerHeight
WindowSizes ==
  {[innerWidth |-> 1920, innerHeight |-> 1080], [innerWidth |-> 1780, innerHeight |-> 900]}

\* ------------------------------------------------------- FaceCardComponent
panelWidth == 240
margin == 12

\* the inputs x, width and screenWidth, in pixels
FaceCards ==
  [x : {0, 1428, 1429}, width : {100, 240}, screenWidth : {1780, 1920}]

\* a getter that compares with >=: the panel already flips at equality
isPanelOnLeftAtEquality(c) == (c.x + c.width + panelWidth + margin) >= c.screenWidth

\* FaceCardComponent.isPanelOnLeft
isPanelOnLeft(c) == (c.x + c.width + panelWidth + margin) > c.screenWidth

\* the class bindings of the side panel: left-full and ml-3 put it to the right
\* of the box, right-full and mr-3 to the left of it
PanelClasses(c) ==
  IF isPanelOnLeft(c) THEN {"right-full", "mr-3"} ELSE {"left-full", "ml-3"}

\* ---------------------------------------------------- EmotionWheelComponent
\* the key of every entry of this.emotions, in order
emotions == <<"Happy", "Surprise", "Fear", "Sad", "Disgust", "Angry", "Neutral">>
N == Len(emotions)

R == 165
r == 120
band == R - r

\* a probability is a whole number of thousandths; a probabilities input is
\* null (absent) or a map from some keys to probabilities
NoMap == [k \in {} |-> 0]
ProbabilityMaps ==
  { Absent(NoMap),
    Present(NoMap),
    Present([k \in {"Happy", "Neutral", "Sad"} |->
               IF k = "Happy" THEN 850 ELSE IF k = "Neutral" THEN 100 ELSE 50]),
    Present([k \in {"Happy", "Surprise", "Fear", "Sad", "Angry"} |->
               IF k = "Happy" THEN 1000 ELSE IF k = "Surprise" THEN 1500
               ELSE IF k = "Fear" THEN 5 ELSE IF k = "Sad" THEN 0 ELSE 10]),
    Present([k \in {"Contempt", "Neutral"} |-> IF k = "Contempt" THEN 500 ELSE 1000]) }

DominantEmotions == {"Neutral", "Happy", "Contempt"}

\* this.probabilities?.[key] || 0
Prob(probabilities, key) ==
  IF probabilities.def /\ key \in DOMAIN probabilities.val
    THEN probabilities.val[key]
    ELSE 0

\* the angle off + (slices / 1000) * slice + (gaps / 1000) * gap
Angle(s, g) == [slices |-> s, gaps |-> g]

\* the start and the end of slice i (from 0): off + i * slice + gap and
\* off + (i + 1) * slice - gap
a0(i) == Angle(1000 * i, 1000)
a1(i) == Angle(1000 * (i + 1), -1000)

\* Math.min(1, prob)
MathMin1(prob) == IF prob < 1000 THEN prob ELSE 1000

\* a fill end without Math.min: a probability above 1 runs into the next slice
fillEndUnclamped(i, prob) ==
  Angle(a0(i).slices + ((a1(i).slices - a0(i).slices) * prob) \div 1000,
        a0(i).gaps + ((a1(i).gaps - a0(i).gaps) * prob) \div 1000)

\* a0 + (a1 - a0) * Math.min(1, prob)
fillEnd(i, prob) ==
  Angle(a0(i).slices + ((a1(i).slices - a0(i).slices) * MathMin1(prob)) \div 1000,
        a0(i).gaps + ((a1(i).gaps - a0(i).gaps) * MathMin1(prob)) \div 1000)

\* (v * 100).toFixed(0) and v.toFixed(0) for v >= 0 given as v * 1000 and as
\* v * 10: the nearest integer, the larger one of two
ToFixed0(p) == (p + 5) \div 10

RECURSIVE Concat(_)
Concat(ss) == IF ss = <<>> THEN <<>> ELSE Head(ss) \o Concat(Tail(ss))

\* the background track: one stroke over the whole extent of every slice
BackgroundTrack ==
  [i \in 1..N |->
     [op |-> "stroke", layer |-> "track", key |-> emotions[i], from |-> a0(i - 1),
      to |-> a1(i - 1), lineWidth |-> band, lineCap |-> "butt", shadowBlur |-> 0]]

\* the filled arc of slice i (from 0): nothing below 0.01, else the glow layer
\* and the main arc, both from a0 to fillEnd
FilledArc(i, probabilities, dominantEmotion) ==
  LET key == emotions[i + 1]
      prob == Prob(probabilities, key) IN
  IF prob < 10
    THEN <<>>
    ELSE << [op |-> "stroke", layer |-> "glow", key |-> key, from |-> a0(i),
             to |-> fillEnd(i, prob), lineWidth |-> band + 4, lineCap |-> "butt",
             shadowBlur |-> 0],
            [op |-> "stroke", layer |-> "main", key |-> key, from |-> a0(i),
             to |-> fillEnd(i, prob), lineWidth |-> band - 6, lineCap |-> "round",
             shadowBlur |-> IF key = dominantEmotion THEN 16 ELSE 0] >>

\* the label of slice i, and its percentage marker above 0.03
Label(i, probabilities, dominantEmotion) ==
  LET key == emotions[i + 1]
      prob == Prob(probabilities, key) IN
  << [op |-> "fillText", layer |-> "label", key |-> key, text |-> key,
      bold |-> (key = dominantEmotion)] >>
    \o (IF prob > 30
          THEN << [op |-> "fillText", layer |-> "percent", key |-> key,
                   percent |-> ToFixed0(prob)] >>
          ELSE <<>>)

\* EmotionWheelComponent.draw: what the canvas shows afterwards.  The 60 tick
\* marks and the inner circle do not depend on the inputs and are one entry each
EmotionWheelDraw(canvas, ctx, probabilities, dominantEmotion) ==
  IF ~ctx
    THEN canvas
    ELSE BackgroundTrack
           \o << [op |-> "stroke", layer |-> "ticks"] >>
           \o Concat([i \in 1..N |-> FilledArc(i - 1, probabilities, dominantEmotion)])
           \o Concat([i \in 1..N |-> Label(i - 1, probabilities, dominantEmotion)])
           \o << [op |-> "stroke", layer |-> "inner circle"] >>

\* ----------------------------------------------- BioSignalWaveformComponent
CanvasWidth == 480
CanvasHeight == 96

\* a sample is a whole number of tenths; y coordinates are in tenths of a pixel
SampleValues == {-20, 3}
Waveforms == UNION {[1..n -> SampleValues] : n \in 0..MaxSamples}

\* bpm in tenths, and the calibration states
BpmValues == {0, 725}
CalibrationStates == {"CALIBRATING", "STABLE", "LOST"}

\* i * q for an integer i >= 0 and a JS number q
Mul(i, q) ==
  IF q.kind = "NaN" THEN NaN
  ELSE IF q.kind = "Infinity" THEN (IF i = 0 THEN NaN ELSE Infinity)
  ELSE [kind |-> "num", num |-> i * q.num, den |-> q.den]

\* Number.isFinite
IsFinite(q) == q.kind = "num"

\* midY = h * 0.55 and scaleY = h / 3
midY == (CanvasHeight * 55) \div 10
scaleY == CanvasHeight \div 3

\* Math.max(4, Math.min(h - 4, midY - sample * scaleY))
ClampY(sample) ==
  LET y == midY - sample * scaleY IN
  IF y > (CanvasHeight - 4) * 10 THEN (CanvasHeight - 4) * 10
  ELSE IF y < 4 * 10 THEN 4 * 10 ELSE y

\* the pts array of draw, as points: x = i * stepX with stepX = w / (length - 1)
Pts(waveform) ==
  [i \in 1..Len(waveform) |->
     [x |-> Mul(i - 1, Div(CanvasWidth, Len(waveform) - 1)), y |-> ClampY(waveform[i])]]

\* drawCardinalSpline: nothing for fewer than two points, else a moveTo and one
\* curve to every further point (the control points are left out)
drawCardinalSpline(pts) ==
  IF Len(pts) * 2 < 4
    THEN <<>>
    ELSE << [op |-> "moveTo", x |-> pts[1].x, y |-> pts[1].y] >>
           \o [i \in 1..(Len(pts) - 1) |->
                 [op |-> "bezierCurveTo", x |-> pts[i + 1].x, y |-> pts[i + 1].y]]

\* ctx.arc(x, y, 4, 0, 2 * Math.PI): a call with a NaN or infinite argument
\* adds nothing to the path
Arc(x, y) ==
  IF IsFinite(x) THEN << [op |-> "arc", x |-> x, y |-> y] >> ELSE <<>>

\* what draw paints after its clearRect
Paint(waveform) ==
  LET pts == Pts(waveform)
      last == pts[Len(pts)] IN
  << [op |-> "fillRect", layer |-> "background", path |-> <<>>],
     [op |-> "stroke", layer |-> "baseline", path |-> <<>>],
     [op |-> "fill", layer |-> "gradient", path |-> drawCardinalSpline(pts)],
     [op |-> "stroke", layer |-> "glow", path |-> drawCardinalSpline(pts)],
     [op |-> "stroke", layer |-> "line", path |-> drawCardinalSpline(pts)],
     [op |-> "fill", layer |-> "dot", path |-> Arc(last.x, last.y)] >>

\* a draw that clears the canvas before it looks at the samples
BioSignalDrawClearFirst(canvas, ctx, waveform) ==
  IF ~ctx THEN canvas ELSE IF Len(waveform) = 0 THEN <<>> ELSE Paint(waveform)

\* BioSignalWaveformComponent.draw: what the canvas shows afterwards
BioSignalDraw(canvas, ctx, waveform) ==
  IF ~ctx \/ Len(waveform) = 0 THEN canvas ELSE Paint(waveform)

\* a readout that shows the number in every state
BpmReadoutUnmasked(state, bpm) == [text |-> "", digits |-> ToFixed0(bpm)]

\* {{ state === 'CALIBRATING' ? '--' : bpm.toFixed(0) }}
BpmReadout(state, bpm) ==
  IF state = "CALIBRATING"
    THEN [text |-> "--", digits |-> 0]
    ELSE [text |-> "", digits |-> ToFixed0(bpm)]

\* *ngIf="state === 'CALIBRATING'" of the 'Calculating...' panel
Overlay(state) == state = "CALIBRATING"

\* ---------------------------------------------------- CameraStreamComponent
\* frameSrc is '' or 'data:image/jpeg;base64,' + frameBase64
NoFrameSrc == [prefix |-> "", data |-> ""]
DataUrl(frame) == [prefix |-> "data:image/jpeg;base64,", data |-> frame]

\* ------------------------------------------------------------- variables
VARIABLES
  variant,            \* which AppComponent source is running
  readyState,         \* WebSocket.readyState of every socket created so far
  closedBy,           \* who started a socket's closing handshake
  socket,             \* WebSocketSubject._socket (0 is null)
  output,             \* per socket: its _output subject has the retry subscriber and is not stopped
  destination,        \* WebSocketSubject.destination
  wire,               \* socket.send calls, in order
  retryAt,            \* deadline of retry's timer(2000), if armed
  sourceState,        \* shareReplay's connection to the socket subject
  now,                \* performance.now()
  sub,                \* AppComponent.sub
  streamCompleted,    \* the inferenceStream$ subscriber received complete
  isConnected,
  faces,
  currentFrame,
  fps,
  lastFrameTimestamp,
  backendLatencyMs,
  cameraStarted,
  pending,            \* startSession calls suspended at await getUserMedia
  calls,              \* history: the number of sendMessage calls so far
  statusLog,          \* history: values emitted by connectionStatus$
  prevArrival,        \* history: arrival time of the last value processInferenceData observed
  viewportWidth,
  viewportHeight,
  alerts,             \* alert dialogs shown (and dismissed) so far
  frameSrc,           \* CameraStreamComponent.frameSrc
  faceCard,           \* FaceCardComponent's inputs x, width, screenWidth
  panelClass,         \* the classes its template gives the side panel
  emotionWheel,       \* EmotionWheelComponent's inputs dominantEmotion, probabilities
  wheelCtx,           \* its ctx is set (ngAfterViewInit has run)
  wheelCanvas,        \* what its canvas shows: the strokes and texts since the last clearRect
  bioSignal,          \* BioSignalWaveformComponent's inputs bpm, waveform, state
  waveCtx,            \* its ctx is set
  waveCanvas,         \* what its canvas shows
  bpmText,            \* the BPM readout of its template
  overlay             \* the 'Calculating...' panel is in the DOM

svc == <<readyState, closedBy, socket, output, destination, wire, retryAt, sourceState>>
view == <<faces, currentFrame, fps, lastFrameTimestamp, backendLatencyMs>>
viewport == <<viewportWidth, viewportHeight>>
card == <<faceCard, panelClass, emotionWheel, wheelCtx, wheelCanvas>>
wave == <<bioSignal, waveCtx, waveCanvas, bpmText, overlay>>
app == <<variant, readyState, closedBy, socket, output, destination, wire,
         retryAt, sourceState, now, sub, streamCompleted, isConnected, faces,
         currentFrame, fps, lastFrameTimestamp, backendLatencyMs,
         cameraStarted, pending, calls, statusLog, prevArrival, viewport,
         alerts, frameSrc>>
vars == <<app, card, wave>>

NumSockets == Cardinality({s \in Sockets : readyState[s] # "NONE"})

\* ------------------------------------------------------------------ Init
\* the state after the service and the component are constructed
Init ==
  /\ variant \in Variants
  /\ readyState = [s \in Sockets |-> "NONE"]
  /\ closedBy = [s \in Sockets |-> "none"]
  /\ socket = 0
  /\ output = [s \in Sockets |-> FALSE]
  /\ destination = [epoch |-> 0, queue |-> <<>>, sock |-> 0]
  /\ wire = <<>>
  /\ retryAt = Absent(0)
  /\ sourceState = "idle"
  /\ now = 1
  /\ sub = "none"
  /\ streamCompleted = FALSE
  /\ isConnected = FALSE
  /\ faces = {}
  /\ currentFrame = ""
  /\ fps = Num(0)
  /\ lastFrameTimestamp = 0
  /\ backendLatencyMs = Num(0)
  /\ cameraStarted = FALSE
  /\ pending = 0
  /\ calls = 0
  /\ statusLog = <<>>
  /\ prevArrival = Absent(0)
  /\ \E size \in WindowSizes :
       viewportWidth = size.innerWidth /\ viewportHeight = size.innerHeight
  /\ alerts = 0
  /\ frameSrc = NoFrameSrc
  /\ faceCard = [x |-> 0, width |-> 0, screenWidth |-> 1920]
  /\ panelClass = PanelClasses(faceCard)
  /\ emotionWheel = [dominantEmotion |-> "Neutral", probabilities |-> Present(NoMap)]
  /\ wheelCtx = FALSE
  /\ wheelCanvas = <<>>
  /\ bioSignal = [bpm |-> 0, waveform |-> <<>>, state |-> "CALIBRATING"]
  /\ waveCtx = FALSE
  /\ waveCanvas = <<>>
  /\ bpmText = BpmReadout(bioSignal.state, bioSignal.bpm)
  /\ overlay = Overlay(bioSignal.state)

\* ------------------------------------------------------------ AppComponent
\* the guard of processInferenceData let the value through
Observed(data) ==
  IF variant = "part_000" THEN ~data.null ELSE ~data.null /\ data.faces.def

\* processInferenceData with the first-sample test "lastFrameTimestamp >= 0":
\* the first observation divides by the time since the page loaded
processInferenceDataNoFirstSample(data, perfNow, dateNow) ==
  IF data.null
    THEN UNCHANGED view
    ELSE /\ faces' = IF data.faces.def THEN data.faces.val ELSE {}
         /\ currentFrame' =
              IF data.frame.def /\ data.frame.val # "" THEN data.frame.val ELSE currentFrame
         /\ fps' =
              IF lastFrameTimestamp >= 0 THEN Div(1000, perfNow - lastFrameTimestamp) ELSE fps
         /\ lastFrameTimestamp' = perfNow
         /\ backendLatencyMs' = MathMax(0, Minus(dateNow, Times(data.timestamp, 1000)))

\* processInferenceData that takes the frame as it takes the faces: a snapshot
\* without a frame blanks the display
processInferenceDataFrameOrBlank(data, perfNow, dateNow) ==
  IF data.null
    THEN UNCHANGED view
    ELSE /\ faces' = IF data.faces.def THEN data.faces.val ELSE {}
         /\ currentFrame' = IF data.frame.def THEN data.frame.val ELSE ""
         /\ fps' =
              IF lastFrameTimestamp > 0 THEN Div(1000, perfNow - lastFrameTimestamp) ELSE fps
         /\ lastFrameTimestamp' = perfNow
         /\ backendLatencyMs' = MathMax(0, Minus(dateNow, Times(data.timestamp, 1000)))

\* part_000: AppComponent.processInferenceData
processInferenceData(data, perfNow, dateNow) ==
  IF data.null
    THEN UNCHANGED view
    ELSE /\ faces' = IF data.faces.def THEN data.faces.val ELSE {}
         /\ currentFrame' =
              IF data.frame.def /\ data.frame.val # "" THEN data.frame.val ELSE currentFrame
         /\ fps' =
              IF lastFrameTimestamp > 0 THEN Div(1000, perfNow - lastFrameTimestamp) ELSE fps
         /\ lastFrameTimestamp' = perfNow
         /\ backendLatencyMs' = MathMax(0, Minus(dateNow, Times(data.timestamp, 1000)))

\* app.component.ts: the same method of the component without the camera frame
processInferenceDataNoFrame(data, perfNow, dateNow) ==
  IF data.null \/ ~data.faces.def
    THEN UNCHANGED view
    ELSE /\ faces' = data.faces.val
         /\ currentFrame' = currentFrame
         /\ fps' =
              IF lastFrameTimestamp > 0 THEN Div(1000, perfNow - lastFrameTimestamp) ELSE fps
         /\ lastFrameTimestamp' = perfNow
         /\ backendLatencyMs' = MathMax(0, Minus(dateNow, Times(data.timestamp, 1000)))

\* the inferenceStream$ subscriber of ngOnInit
StreamNext(data, perfNow, dateNow) ==
  /\ IF variant = "part_000"
       THEN processInferenceData(data, perfNow, dateNow)
       ELSE processInferenceDataNoFrame(data, perfNow, dateNow)
  /\ prevArrival' = IF Observed(data) THEN Present(perfNow) ELSE prevArrival

\* the camera stream's input: [frameBase64]="currentFrame" in the root template
frameBase64 == currentFrame

\* change detection after a handler, and CameraStreamComponent.ngOnChanges
CameraStreamChanges ==
  frameSrc' = IF frameBase64' # frameBase64 /\ frameBase64' # ""
                THEN DataUrl(frameBase64')
                ELSE frameSrc

\* the 'AWAITING FEED' indicator: *ngIf="!frameSrc"
AwaitingFeed == frameSrc = NoFrameSrc

\* a status subscriber that ngOnDestroy does not unsubscribe
StatusNextAfterTeardown(s, status) ==
  /\ isConnected' = IF sub # "none" THEN status ELSE isConnected
  /\ statusLog' = Append(statusLog, [sock |-> s, status |-> status])

\* connectionStatus$.next(status), and its subscriber of ngOnInit
StatusNext(s, status) ==
  /\ isConnected' = IF sub = "active" THEN status ELSE isConnected
  /\ statusLog' = Append(statusLog, [sock |-> s, status |-> status])

\* --------------------------------------------------------- WebSocketSubject
\* _resetState: a new, empty ReplaySubject becomes the destination
ReplaySubjectNew == [epoch |-> destination.epoch + 1, queue |-> <<>>, sock |-> 0]

\* _subscribe: connect a socket unless there is one, and attach to _output
Subscribe ==
  IF socket = 0
    THEN LET n == NumSockets + 1 IN
         /\ readyState' = [readyState EXCEPT ![n] = "CONNECTING"]
         /\ socket' = n
         /\ output' = [output EXCEPT ![n] = TRUE]
    ELSE /\ readyState' = readyState
         /\ socket' = socket
         /\ output' = [output EXCEPT ![socket] = TRUE]

\* openObserver: connectionStatus$.next(true)
openObserver(s) == StatusNext(s, TRUE)

\* a closeObserver that emits nothing
closeObserverSilent(s) == UNCHANGED <<isConnected, statusLog>>

\* closeObserver: connectionStatus$.next(false)
closeObserver(s) == StatusNext(s, FALSE)

\* the delay of retry({ delay: 2000 })
RetryDeadline(t) == t + RetryDelay

\* the channel is open: there is a current socket and its readyState is OPEN
ChannelOpen == socket # 0 /\ readyState[socket] = "OPEN"

\* sendMessage that drops the message unless the socket has opened
sendMessageUnlessOpenDrop(msg) ==
  /\ destination' = destination
  /\ wire' = IF destination.sock # 0 /\ readyState[destination.sock] = "OPEN"
               THEN Append(wire, [msg |-> msg, sock |-> destination.sock])
               ELSE wire

\* WebsocketService.sendMessage: socket$.next(msg) hands msg to the destination,
\* the ReplaySubject until the socket opens and the socket's sender afterwards
sendMessage(msg) ==
  IF destination.sock = 0
    THEN /\ destination' = [destination EXCEPT !.queue = Append(@, msg)]
         /\ wire' = wire
    ELSE /\ destination' = destination
         /\ wire' = IF readyState[destination.sock] = "OPEN"
                      THEN Append(wire, [msg |-> msg, sock |-> destination.sock])
                      ELSE wire

\* ------------------------------------------------------------------- clock
\* now is the time of the last event that read the clock; the next event reads
\* it at now + d.  TicksUsed counts the advances of the clock since the start,
\* a wait for retry's timer being one advance
TicksUsed(t) == (t \div RetryDelay) + (t % RetryDelay) - 1

Delays == {d \in {0, 1} : TicksUsed(now + d) <= MaxTicks}

\* ------------------------------------------------------------------ actions
\* ngOnInit: subscribe to the status, then to the stream; shareReplay subscribes
\* to the socket subject, which connects
NgOnInit ==
  /\ sub = "none"
  /\ sub' = "active"
  /\ sourceState' = "connected"
  /\ Subscribe
  /\ UNCHANGED <<card, wave, viewport, alerts, frameSrc, variant, closedBy, destination, wire, retryAt, now, streamCompleted,
                 isConnected, view, cameraStarted, pending, calls, statusLog, prevArrival>>

\* socket.onopen
SocketOpen(s) ==
  /\ readyState[s] = "CONNECTING"
  /\ IF socket = 0
       THEN /\ readyState' = [readyState EXCEPT ![s] = "CLOSING"]
            /\ closedBy' = [closedBy EXCEPT ![s] = "client"]
            /\ destination' = ReplaySubjectNew
            /\ UNCHANGED <<wire, isConnected, statusLog>>
       ELSE /\ readyState' = [readyState EXCEPT ![s] = "OPEN"]
            /\ closedBy' = closedBy
            /\ openObserver(s)
            /\ wire' = wire \o [i \in 1..Len(destination.queue) |->
                                  [msg |-> destination.queue[i], sock |-> s]]
            /\ destination' = [destination EXCEPT !.queue = <<>>, !.sock = s]
  /\ UNCHANGED <<card, wave, viewport, alerts, frameSrc, variant, socket, output, retryAt, sourceState, now, sub, streamCompleted,
                 view, cameraStarted, pending, calls, prevArrival>>

\* socket.onmessage
SocketMessage(s, e, d, dateNow) ==
  /\ readyState[s] = "OPEN"
  /\ d \in Delays
  /\ now' = now + d
  /\ IF e.wellFormed
       THEN /\ IF output[s] /\ sourceState = "connected" /\ sub = "active" /\ ~streamCompleted
                 THEN StreamNext(deserializer(e), now', dateNow)
                 ELSE UNCHANGED <<view, prevArrival>>
            /\ UNCHANGED <<readyState, closedBy, socket, output, destination, retryAt>>
       ELSE /\ IF output[s]
                 THEN /\ output' = [output EXCEPT ![s] = FALSE]
                      /\ retryAt' = Present(RetryDeadline(now'))
                      /\ IF socket # 0 /\ readyState[socket] \in {"CONNECTING", "OPEN"}
                           THEN /\ readyState' = [readyState EXCEPT ![socket] = "CLOSING"]
                                /\ closedBy' = [closedBy EXCEPT ![socket] = "client"]
                           ELSE UNCHANGED <<readyState, closedBy>>
                      /\ socket' = 0
                      /\ destination' = ReplaySubjectNew
                 ELSE UNCHANGED <<readyState, closedBy, socket, output, destination, retryAt>>
            /\ UNCHANGED <<view, prevArrival>>
  /\ CameraStreamChanges
  /\ UNCHANGED <<card, wave, viewport, alerts, variant, wire, sourceState, sub, streamCompleted, isConnected,
                 cameraStarted, pending, calls, statusLog>>

\* the connection fails or is lost: socket.onerror (when the browser fires it)
\* and then socket.onclose with wasClean false
SocketDrop(s, withError, d) ==
  /\ readyState[s] \in {"CONNECTING", "OPEN"}
  /\ d \in Delays
  /\ now' = now + d
  /\ readyState' = [readyState EXCEPT ![s] = "CLOSED"]
  /\ closedBy' = [closedBy EXCEPT ![s] = "network"]
  /\ closeObserver(s)
  /\ IF withError \/ s = socket \/ output[s]
       THEN socket' = 0 /\ destination' = ReplaySubjectNew
       ELSE UNCHANGED <<socket, destination>>
  /\ IF output[s]
       THEN /\ output' = [output EXCEPT ![s] = FALSE]
            /\ retryAt' = Present(RetryDeadline(now'))
       ELSE UNCHANGED <<output, retryAt>>
  /\ UNCHANGED <<card, wave, viewport, alerts, frameSrc, variant, wire, sourceState, sub, streamCompleted, view,
                 cameraStarted, pending, calls, prevArrival>>

\* the server's Close frame arrives: the browser starts the closing handshake
ServerCloseFrame(s) ==
  /\ readyState[s] = "OPEN"
  /\ readyState' = [readyState EXCEPT ![s] = "CLOSING"]
  /\ closedBy' = [closedBy EXCEPT ![s] = "server"]
  /\ UNCHANGED <<card, wave, viewport, alerts, frameSrc, variant, socket, output, destination, wire, retryAt, sourceState, now,
                 sub, streamCompleted, isConnected, view, cameraStarted, pending, calls,
                 statusLog, prevArrival>>

\* socket.onclose at the end of a closing handshake
SocketClose(s, wasClean, d) ==
  /\ readyState[s] = "CLOSING"
  /\ d \in Delays
  /\ now' = now + d
  /\ readyState' = [readyState EXCEPT ![s] = "CLOSED"]
  /\ closeObserver(s)
  /\ IF s = socket \/ output[s]
       THEN socket' = 0 /\ destination' = ReplaySubjectNew
       ELSE UNCHANGED <<socket, destination>>
  /\ IF output[s]
       THEN /\ output' = [output EXCEPT ![s] = FALSE]
            /\ IF wasClean
                 THEN /\ sourceState' = "complete"
                      /\ streamCompleted' = (streamCompleted \/ sub = "active")
                      /\ retryAt' = retryAt
                 ELSE /\ retryAt' = Present(RetryDeadline(now'))
                      /\ UNCHANGED <<sourceState, streamCompleted>>
       ELSE UNCHANGED <<output, sourceState, streamCompleted, retryAt>>
  /\ UNCHANGED <<card, wave, viewport, alerts, frameSrc, variant, closedBy, wire, sub, view, cameraStarted, pending, calls,
                 prevArrival>>

\* retry's timer fires, at its deadline or later: resubscribe to the socket subject
RetryFire ==
  /\ retryAt.def
  /\ now' = IF now < retryAt.val THEN retryAt.val ELSE now
  /\ TicksUsed(now') <= MaxTicks
  /\ NumSockets < MaxSockets
  /\ retryAt' = Absent(0)
  /\ Subscribe
  /\ UNCHANGED <<card, wave, viewport, alerts, frameSrc, variant, closedBy, destination, wire, sourceState, sub,
                 streamCompleted, isConnected, view, cameraStarted, pending, calls,
                 statusLog, prevArrival>>

\* startSession up to its await of getUserMedia
StartSession ==
  /\ variant = "part_000"
  /\ sub = "active"
  /\ calls + pending + alerts < MaxSends
  /\ pending' = pending + 1
  /\ UNCHANGED <<card, wave, viewport, alerts, frameSrc, variant, svc, now, sub, streamCompleted, isConnected, view,
                 cameraStarted, calls, statusLog, prevArrival>>

\* getUserMedia resolves: the rest of the try block
PermissionGranted ==
  /\ pending > 0
  /\ pending' = pending - 1
  /\ cameraStarted' = TRUE
  /\ calls' = calls + 1
  /\ sendMessage([type |-> "START_INF", call |-> calls + 1, open |-> ChannelOpen])
  /\ UNCHANGED <<card, wave, viewport, alerts, frameSrc, variant, readyState, closedBy, socket, output, retryAt, sourceState, now,
                 sub, streamCompleted, isConnected, view, statusLog, prevArrival>>

\* a catch block that starts the session all the same
PermissionDeniedStartsAnyway ==
  /\ pending > 0
  /\ pending' = pending - 1
  /\ alerts' = alerts + 1
  /\ cameraStarted' = TRUE
  /\ calls' = calls + 1
  /\ sendMessage([type |-> "START_INF", call |-> calls + 1, open |-> ChannelOpen])
  /\ UNCHANGED <<card, wave, viewport, frameSrc, variant, readyState, closedBy, socket,
                 output, retryAt, sourceState, now, sub, streamCompleted, isConnected, view,
                 statusLog, prevArrival>>

\* getUserMedia rejects: the catch block (console.error, then the alert)
PermissionDenied ==
  /\ pending > 0
  /\ pending' = pending - 1
  /\ alerts' = alerts + 1
  /\ UNCHANGED <<card, wave, viewport, frameSrc, variant, svc, now, sub, streamCompleted, isConnected, view,
                 cameraStarted, calls, statusLog, prevArrival>>

\* ngOnDestroy: sub.unsubscribe()
NgOnDestroy ==
  /\ sub = "active"
  /\ sub' = "closed"
  /\ UNCHANGED <<card, wave, viewport, alerts, frameSrc, variant, svc, now, streamCompleted, isConnected, view, cameraStarted,
                 pending, calls, statusLog, prevArrival>>

\* onResize, the window:resize listener
OnResize(size) ==
  /\ viewportWidth' = size.innerWidth
  /\ viewportHeight' = size.innerHeight
  /\ UNCHANGED <<card, wave, alerts, frameSrc, variant, svc, now, sub, streamCompleted,
                 isConnected, view, cameraStarted, pending, calls, statusLog, prevArrival>>

Next ==
  \/ NgOnInit
  \/ \E s \in Sockets : SocketOpen(s)
  \/ \E s \in Sockets, e \in MessageEvents, d \in {0, 1}, t \in SystemTimes :
       SocketMessage(s, e, d, t)
  \/ \E s \in Sockets, withError \in BOOLEAN, d \in {0, 1} : SocketDrop(s, withError, d)
  \/ \E s \in Sockets : ServerCloseFrame(s)
  \/ \E s \in Sockets, wasClean \in BOOLEAN, d \in {0, 1} : SocketClose(s, wasClean, d)
  \/ RetryFire
  \/ StartSession
  \/ PermissionGranted
  \/ PermissionDenied
  \/ NgOnDestroy
  \/ \E size \in WindowSizes : OnResize(size)

Spec == Init /\ [][Next]_vars

\* ------------------------------------------------------ the face card's parts
\* change detection gives the face card new inputs and re-evaluates its bindings
FaceCardChanges(c) ==
  /\ faceCard' = c
  /\ panelClass' = PanelClasses(c)
  /\ UNCHANGED <<app, wave, emotionWheel, wheelCtx, wheelCanvas>>

\* EmotionWheelComponent.ngAfterViewInit
EmotionWheelAfterViewInit ==
  /\ ~wheelCtx
  /\ wheelCtx' = TRUE
  /\ wheelCanvas' =
       EmotionWheelDraw(wheelCanvas, TRUE, emotionWheel.probabilities,
                        emotionWheel.dominantEmotion)
  /\ UNCHANGED <<app, wave, faceCard, panelClass, emotionWheel>>

\* new inputs and EmotionWheelComponent.ngOnChanges
EmotionWheelChanges(probabilities, dominantEmotion) ==
  /\ emotionWheel' = [dominantEmotion |-> dominantEmotion, probabilities |-> probabilities]
  /\ wheelCanvas' = EmotionWheelDraw(wheelCanvas, wheelCtx, probabilities, dominantEmotion)
  /\ UNCHANGED <<app, wave, faceCard, panelClass, wheelCtx>>

CardNext ==
  \/ \E c \in FaceCards : FaceCardChanges(c)
  \/ EmotionWheelAfterViewInit
  \/ \E p \in ProbabilityMaps, d \in DominantEmotions : EmotionWheelChanges(p, d)

CardSpec == Init /\ [][CardNext]_vars

\* BioSignalWaveformComponent.ngAfterViewInit: the canvas is sized, which
\* blanks it, and drawn
BioSignalAfterViewInit ==
  /\ ~waveCtx
  /\ waveCtx' = TRUE
  /\ waveCanvas' = BioSignalDraw(<<>>, TRUE, bioSignal.waveform)
  /\ UNCHANGED <<app, card, bioSignal, bpmText, overlay>>

\* new inputs, BioSignalWaveformComponent.ngOnChanges and the template's
\* bindings; changes['waveform'] is set when the array is another one
BioSignalChanges(bpm, waveform, state, changed) ==
  /\ waveform # bioSignal.waveform => changed
  /\ bioSignal' = [bpm |-> bpm, waveform |-> waveform, state |-> state]
  /\ waveCanvas' =
       IF changed THEN BioSignalDraw(waveCanvas, waveCtx, waveform) ELSE waveCanvas
  /\ bpmText' = BpmReadout(state, bpm)
  /\ overlay' = Overlay(state)
  /\ UNCHANGED <<app, card, waveCtx>>

WaveNext ==
  \/ BioSignalAfterViewInit
  \/ \E b \in BpmValues, w \in Waveforms, s \in CalibrationStates, changed \in BOOLEAN :
       BioSignalChanges(b, w, s, changed)

WaveSpec == Init /\ [][WaveNext]_vars

TypeOK ==
  /\ variant \in Variants
  /\ readyState \in [Sockets -> {"NONE", "CONNECTING", "OPEN", "CLOSING", "CLOSED"}]
  /\ socket \in 0..MaxSockets
  /\ sub \in {"none", "active", "closed"}
  /\ pending \in 0..MaxSends
  /\ faceCard \in FaceCards \cup {[x |-> 0, width |-> 0, screenWidth |-> 1920]}
  /\ emotionWheel \in [dominantEmotion : DominantEmotions, probabilities : ProbabilityMaps]
  /\ bioSignal \in [bpm : BpmValues, waveform : Waveforms, state : CalibrationStates]
  /\ wheelCtx \in BOOLEAN /\ waveCtx \in BOOLEAN /\ overlay \in BOOLEAN

\* ------------------------------------------------------------------ claims
\* the retry subscriber of socket s is attached and the view is subscribed
Attached(s) ==
  output[s] /\ sourceState = "connected" /\ sub = "active" /\ ~streamCompleted

Malformed == [wellFormed |-> FALSE, value |-> JsonNull]
WellFormed(v) == [wellFormed |-> TRUE, value |-> v]

\* C1: once the view has subscribed, whenever no channel is current (the last
\* one closed or failed) a reconnection is scheduled, at most RetryDelay ahead
C1_ReconnectScheduled ==
  (sourceState # "idle" /\ socket = 0) =>
    (retryAt.def /\ retryAt.val <= now + RetryDelay)

\* C2: the inferenceStream$ subscriber of ngOnInit never receives complete
\* (or error)
C2_NeverTerminated == ~streamCompleted

\* C3: while the view is subscribed, isConnected is true exactly when the
\* current channel is open (a channel whose close the browser has not yet
\* reported still counts as open)
C3_StatusMatchesChannel ==
  sub = "active" =>
    (isConnected <=> (socket # 0 /\ readyState[socket] \in {"OPEN", "CLOSING"}))

\* the positions of statusLog at which channel s reported status b
StatusAt(s, b) ==
  {i \in DOMAIN statusLog : statusLog[i] = [sock |-> s, status |-> b]}

C6_MalformedIsDropped ==
  [][\A s \in Sockets, t \in SystemTimes :
       SocketMessage(s, Malformed, now' - now, t) =>
         UNCHANGED <<readyState, socket, output, retryAt, isConnected, statusLog, view>>]_vars

Keys(f) == {x.key : x \in f}

\* C8: after {type: "inference_results", payload: P} is delivered to the
\* subscribed view, faces is P.faces and backendLatencyMs is
\* max(0, clientNow - P.timestamp * 1000)
C8_EnvelopeDecoded ==
  [][\A s \in Sockets, P \in Snapshots, t \in SystemTimes :
       (Attached(s)
          /\ SocketMessage(s, WellFormed(Envelope("inference_results", P)), now' - now, t)) =>
         /\ Keys(faces') = Keys(P.faces.val)
         /\ faces' = P.faces.val
         /\ backendLatencyMs'.kind = "num"
         /\ backendLatencyMs'.den = 1
         /\ backendLatencyMs'.num =
              (IF t - P.timestamp.val * 1000 > 0 THEN t - P.timestamp.val * 1000 ELSE 0)]_vars

C10_LatencyIsNonNegativeNumber ==
  backendLatencyMs.kind = "num" /\ backendLatencyMs.num >= 0

\* C15: after a snapshot is delivered to the subscribed view, the displayed
\* entities are exactly the keys of its faces, and none if it has no faces field
C15_EntitiesOfNewestSnapshot ==
  [][\A s \in Sockets, P \in Snapshots, t \in SystemTimes :
       (Attached(s) /\ SocketMessage(s, WellFormed(Flat(P)), now' - now, t)) =>
         Keys(faces') = (IF P.faces.def THEN Keys(P.faces.val) ELSE {})]_vars

\* C17: once ngOnDestroy has run, no step changes faces, currentFrame, fps,
\* lastFrameTimestamp, backendLatencyMs or isConnected
C17_TeardownUnsubscribes ==
  [][sub = "closed" => UNCHANGED <<view, isConnected>>]_vars

\* C17 witness: after ngOnDestroy the channel reported false (and a message
\* event read the clock) while the view still shows connected and no snapshot
C17_Witness ==
  /\ sub = "closed"
  /\ isConnected
  /\ statusLog # <<>>
  /\ ~statusLog[Len(statusLog)].status
  /\ now > 1
  /\ ~prevArrival.def

\* C18: once ngOnDestroy has run, no channel is connecting or open and no
\* reconnection is scheduled
C18_UnsubscribeReleasesChannel ==
  sub = "closed" =>
    /\ \A s \in Sockets : readyState[s] \notin {"CONNECTING", "OPEN"}
    /\ ~retryAt.def

\* C19: faces is that of the last snapshot to arrive: every snapshot delivered
\* to the subscribed view, bare or in its envelope, sets faces to its own, and
\* no other step (a resize, a step of startSession) changes the rendered state
C19_LastArrivalWins ==
  /\ [][\A s \in Sockets, P \in Snapshots, t \in SystemTimes :
          \A v \in {Flat(P), Envelope("inference_results", P)} :
            (Attached(s) /\ SocketMessage(s, WellFormed(v), now' - now, t)) =>
              faces' = (IF P.faces.def THEN P.faces.val ELSE {})]_vars
  /\ [][(viewport' # viewport \/ pending' # pending \/ calls' # calls) =>
          UNCHANGED view]_vars

\* C20: every value the stream emits to the subscribed view, null and one
\* without faces included, sets lastFrameTimestamp to its arrival time
C20_LastArrivalUnconditional ==
  [][\A s \in Sockets, v \in JsonValues, t \in SystemTimes :
       (Attached(s) /\ SocketMessage(s, WellFormed(v), now' - now, t)) =>
         lastFrameTimestamp' = now']_vars

StrokesOf(layer, key) ==
  {j \in DOMAIN wheelCanvas :
     /\ wheelCanvas[j].op = "stroke"
     /\ wheelCanvas[j].layer = layer
     /\ wheelCanvas[j].key = key}

\* C12: once drawn, the gauge has for each of the 7 categories a filled arc
\* if and only if its probability (0 for a missing category or map) is >= 0.01;
\* the arc starts at the slice's start and its extent is min(1, probability)
\* times the slice extent; the draw runs to its end
C12_GaugeFill ==
  wheelCtx =>
    /\ N = 7
    /\ wheelCanvas[Len(wheelCanvas)].layer = "inner circle"
    /\ \A i \in 0..(N - 1) :
         LET key == emotions[i + 1]
             p == IF emotionWheel.probabilities.def
                       /\ key \in DOMAIN emotionWheel.probabilities.val
                    THEN emotionWheel.probabilities.val[key] ELSE 0
             m == IF p > 1000 THEN 1000 ELSE p IN
         IF p >= 10
           THEN /\ Cardinality(StrokesOf("main", key)) = 1
                /\ \A j \in StrokesOf("main", key) \cup StrokesOf("glow", key) :
                     /\ wheelCanvas[j].from = a0(i)
                     /\ (wheelCanvas[j].to.slices - a0(i).slices) * 1000
                          = m * (a1(i).slices - a0(i).slices)
                     /\ (wheelCanvas[j].to.gaps - a0(i).gaps) * 1000
                          = m * (a1(i).gaps - a0(i).gaps)
           ELSE StrokesOf("main", key) \cup StrokesOf("glow", key) = {}

\* C12 witness: a drawn gauge whose map has a probability above 1 (filling the
\* whole slice), one below 0.01, a 0 and missing categories
C12_Witness ==
  /\ wheelCtx
  /\ emotionWheel.probabilities.def
  /\ "Surprise" \in DOMAIN emotionWheel.probabilities.val
  /\ \E j \in StrokesOf("main", "Surprise") : wheelCanvas[j].to = a1(1)
  /\ StrokesOf("main", "Fear") = {}
  /\ StrokesOf("main", "Neutral") = {}

\* ------------------------------------------------------------------ waveform
\* C13: with an empty sample sequence a draw changes nothing on the canvas
C13_EmptyRetainsCanvas ==
  [][bioSignal'.waveform = <<>> => waveCanvas' = waveCanvas]_vars

\* C13 witness: the samples are empty and the canvas still shows an earlier
\* waveform
C13_Witness ==
  /\ waveCtx
  /\ bioSignal.waveform = <<>>
  /\ waveCanvas # <<>>

\* C14: the canvas drawn from exactly one sample has no curve segment and a
\* dot at x within [0, width] and y within the clamped range
C14_SingleSampleDot ==
  (waveCtx /\ Len(bioSignal.waveform) = 1 /\ waveCanvas # <<>>) =>
    /\ \A j \in DOMAIN waveCanvas : \A q \in DOMAIN waveCanvas[j].path :
         waveCanvas[j].path[q].op # "bezierCurveTo"
    /\ LET dot == waveCanvas[Len(waveCanvas)].path IN
       /\ Len(dot) = 1
       /\ dot[1].x.kind = "num"
       /\ 0 <= dot[1].x.num /\ dot[1].x.num <= CanvasWidth * dot[1].x.den
       /\ 4 * 10 <= dot[1].y /\ dot[1].y <= (CanvasHeight - 4) * 10

\* C16: in state CALIBRATING, the initial state included, the readout is '--'
\* and the 'Calculating...' panel is shown; in every other state the readout
\* is the bpm rounded to an integer and the panel is absent
C16_CalibrationMasking ==
  IF bioSignal.state = "CALIBRATING"
    THEN bpmText.text = "--" /\ overlay
    ELSE /\ bpmText.text = ""
         /\ 10 * bpmText.digits - 5 <= bioSignal.bpm
         /\ bioSignal.bpm < 10 * bpmText.digits + 5
         /\ ~overlay

\* C16 witness: a bpm other than 0 arrived in state CALIBRATING and is masked
C16_Witness ==
  /\ bioSignal.state = "CALIBRATING"
  /\ bioSignal.bpm > 0
  /\ bpmText.text = "--"
  /\ overlay

\* --------------------------------------------------------------------- glow
\* C21: in a drawn gauge no arc of a category other than the dominant one is
\* stroked wider than the band or with a shadow blur
C21_GlowOnlyOnDominant ==
  wheelCtx =>
    \A j \in DOMAIN wheelCanvas :
      (/\ wheelCanvas[j].op = "stroke"
       /\ wheelCanvas[j].layer \in {"glow", "main"}
       /\ wheelCanvas[j].key # emotionWheel.dominantEmotion) =>
        /\ wheelCanvas[j].lineWidth <= band
        /\ wheelCanvas[j].shadowBlur = 0

\* ------------------------------------------------------------- start control
\* C22: a startSession call ends in one of two ways.  Permission granted:
\* cameraStarted becomes true and exactly one START_INF is handed to
\* sendMessage (which transmits it, buffers it or drops it), with no alert.
\* Permission denied: one alert, and no message, no change of cameraStarted,
\* of the service, of isConnected or of the rendered state.  cameraStarted
\* and the message count change in no other step
C22_StartControlPath ==
  /\ [][pending' < pending =>
          \/ /\ calls' = calls + 1
             /\ cameraStarted'
             /\ alerts' = alerts
             /\ LET msg == [type |-> "START_INF", call |-> calls', open |-> ChannelOpen] IN
                \/ /\ destination' = destination
                   /\ \E s \in Sockets : wire' = Append(wire, [msg |-> msg, sock |-> s])
                \/ /\ destination' = [destination EXCEPT !.queue = Append(@, msg)]
                   /\ wire' = wire
                \/ /\ destination' = destination
                   /\ wire' = wire
          \/ /\ alerts' = alerts + 1
             /\ UNCHANGED <<calls, cameraStarted, svc, isConnected, view, frameSrc, sub,
                            streamCompleted>>]_vars
  /\ [][(cameraStarted' # cameraStarted \/ calls' # calls) =>
          /\ pending' = pending - 1
          /\ alerts' = alerts
          /\ cameraStarted'
          /\ calls' = calls + 1]_vars
  /\ [][alerts' # alerts => pending' = pending - 1]_vars
  /\ [](cameraStarted <=> calls > 0)

\* C22 witness: permission was denied, nothing was sent, and the open stream
\* has delivered a snapshot to the view
C22_Witness ==
  /\ alerts > 0
  /\ ~cameraStarted
  /\ wire = <<>>
  /\ destination.queue = <<>>
  /\ isConnected
  /\ prevArrival.def
  /\ faces # {}

\* ----------------------------------------------------------- frame carry-over
\* C23, for the component that has a camera frame (part_000): a delivered
\* snapshot with a non-empty frame makes it the displayed frame, any other
\* leaves the displayed frame unchanged, and nothing else changes it; frameSrc
\* is the data URL of currentFrame; 'AWAITING FEED' is shown exactly while no
\* frame has arrived and, once gone, is never shown again
C23_FrameCarryOver ==
  /\ [](variant = "part_000" =>
          /\ frameSrc = (IF currentFrame = "" THEN NoFrameSrc ELSE DataUrl(currentFrame))
          /\ AwaitingFeed <=> currentFrame = "")
  /\ [][variant = "part_000" =>
          (\A s \in Sockets, v \in JsonValues, t \in SystemTimes :
             (Attached(s) /\ ~v.null /\ SocketMessage(s, WellFormed(v), now' - now, t)) =>
               currentFrame' =
                 (IF v.frame.def /\ v.frame.val # "" THEN v.frame.val ELSE currentFrame))]_vars
  /\ [][currentFrame' # currentFrame =>
          \E s \in Sockets, v \in JsonValues, t \in SystemTimes :
            /\ v.frame = Present(currentFrame')
            /\ SocketMessage(s, WellFormed(v), now' - now, t)]_vars
  /\ [][~AwaitingFeed => ~AwaitingFeed']_vars

\* C23 witness: frame jpegB is displayed, a later snapshot without a frame has
\* replaced the faces and left it, and the channel has gone since
C23_Witness ==
  /\ currentFrame = "jpegB"
  /\ frameSrc = DataUrl("jpegB")
  /\ ~AwaitingFeed
  /\ Cardinality(faces) = 2
  /\ ~isConnected
  /\ socket = 0

====
